---- MODULE Spec2Model ----
(***************************************************************************)
(* Model of the axum todo service: the two routers (main.rs and            *)
(* route.rs::create_router), the auth gate middleware::mw_require_auth     *)
(* with the jsonwebtokens_cognito KeySet it builds per request, and the    *)
(* stand-alone verifier middleware::verify_cognito_jwt_token (whose only   *)
(* call, middleware.rs:55-58, is commented out, so it is driven directly   *)
(* by VerifierSpec).                                                       *)
(***************************************************************************)
EXTENDS Integers, FiniteSets, Sequences, TLC

(* ------------------------------ bounds --------------------------------- *)
\* Concurrent requests in flight.
NumReqs == 2
\* The clock starts at T0 and may advance MaxTicks times.
MaxTicks == 1
T0 == 10
Reqs == 1..NumReqs

(* --------------------------- configuration ----------------------------- *)
Unset == "<unset>"
EnvVars == {"USER_POOL_REGION", "USER_POOL_ID", "CLIENT_ID"}
Configured ==
    [v \in EnvVars |->
        CASE v = "USER_POOL_REGION" -> "eu-west-1"
          [] v = "USER_POOL_ID" -> "pool1"
          [] OTHER -> "client1"]
\* The process environment at start: dotenv().ok() sets what .env holds, and
\* nothing checks that a variable is present.  Here: all three, or one missing.
Envs == {Configured} \cup {[Configured EXCEPT ![v] = Unset] : v \in EnvVars}

\* format!("https://cognito-idp.{}.amazonaws.com/{}", region, pool): the URL is
\* determined by, and determines, the pair.
issuer_url(region, pool) == <<"https://cognito-idp", region, "amazonaws.com", pool>>

(* ------------------------------ key sets ------------------------------- *)
\* The jwks.json the issuer serves lists its keys in order: before a
\* rotation k1 and k2, after it k2 and k3.
OldKeys == <<"k1", "k2">>
NewKeys == <<"k2", "k3">>
Kids(jwks) == {jwks[i] : i \in 1..Len(jwks)}
KeySets == {Kids(OldKeys), Kids(NewKeys)}

(* ------------------------------- tokens -------------------------------- *)
None == "<none>"
\* A token as the spec's claims describe a good one: well formed, signed by k2
\* (published before and after a rotation), unexpired, issued by the
\* configured pool for the configured client, an access token.
BaseToken ==
    [wellformed |-> TRUE, kid |-> "k2", sig |-> "k2",
     exp |-> T0 + 20, nbf |-> T0 - 8,
     iss |-> issuer_url("eu-west-1", "pool1"), client_id |-> "client1",
     token_use |-> "access", my_claim |-> None, username |-> "alice"]

\* One deviation from the base token each.
Deviations ==
    { [BaseToken EXCEPT !.wellformed = FALSE],
      [BaseToken EXCEPT !.kid = None],
      [BaseToken EXCEPT !.kid = "k9", !.sig = "k9"],
      [BaseToken EXCEPT !.kid = "k1", !.sig = "k1"],
      [BaseToken EXCEPT !.sig = "forged"],
      [BaseToken EXCEPT !.exp = T0 - 6],
      [BaseToken EXCEPT !.exp = T0 - 5],
      [BaseToken EXCEPT !.exp = T0 - 3],
      [BaseToken EXCEPT !.exp = T0 + 1],
      [BaseToken EXCEPT !.nbf = T0 + 8],
      [BaseToken EXCEPT !.iss = issuer_url("eu-west-1", "pool2")],
      [BaseToken EXCEPT !.client_id = "client2"],
      [BaseToken EXCEPT !.token_use = "id"],
      [BaseToken EXCEPT !.username = None] }

\* Each with and without the custom claim my_claim = "foo".
Tokens ==
    {BaseToken} \cup Deviations \cup
    { [t EXCEPT !.my_claim = "foo"] : t \in {BaseToken} \cup Deviations }

\* An Authorization header: absent, present but not visible ASCII (to_str()
\* fails), or a string, here always a token.
NoHeader == [kind |-> "absent"]
OpaqueHeader == [kind |-> "opaque"]
TokenHeader(t) == [kind |-> "str", token |-> t]
Headers == {NoHeader, OpaqueHeader} \cup {TokenHeader(t) : t \in Tokens}

(* ------------------------------- routes -------------------------------- *)
Route(m, p) == <<m, p>>
TodoRoutes ==
    { Route("GET", "/todos"), Route("POST", "/todos"),
      Route("GET", "/todos/:id"), Route("PATCH", "/todos/:id"),
      Route("DELETE", "/todos/:id") }
AccountRoutes ==
    { Route("POST", "/login"), Route("POST", "/signup"), Route("POST", "/confirm") }
Routes == TodoRoutes \cup AccountRoutes \cup
          { Route("GET", "/"), Route("POST", "/logout") }

\* route.rs:12-18: the routes added before route_layer(from_fn(mw_require_auth)).
create_router_layered == TodoRoutes \cup { Route("POST", "/logout") }
\* route.rs:20-23: the routes added after it.
create_router_plain == AccountRoutes \cup { Route("GET", "/") }
\* main.rs:354-364: the router main() serves; no layer but CORS.
main_router_plain ==
    TodoRoutes \cup { Route("GET", "/"), Route("POST", "/login"), Route("POST", "/signup") }

Routers == {"main", "create_router"}

\* Whether `router` sends a request for `route` through mw_require_auth.
Layered(router, route) ==
    router = "create_router" /\ route \in create_router_layered

\* Whether `router` has the route at all (else 404).
Matched(router, route) ==
    IF router = "main" THEN route \in main_router_plain
    ELSE route \in create_router_layered \cup create_router_plain

\* The requests the model sends.  Through create_router, GET /todos with every
\* header, each other layered route without a header and with an accepted
\* token, each other route without a header; through main's router the same
\* without the token variants, which nothing there reads.
Input(ro, rt, h) == [router |-> ro, route |-> rt, header |-> h]
FooToken == [BaseToken EXCEPT !.my_claim = "foo"]
GateHeaders ==
    {NoHeader, OpaqueHeader, TokenHeader(BaseToken)}
    \cup {TokenHeader([t EXCEPT !.my_claim = "foo"]) : t \in {BaseToken} \cup Deviations}
Inputs ==
    { Input("create_router", Route("GET", "/todos"), h) : h \in GateHeaders }
    \cup { Input("create_router", rt, h) :
             rt \in create_router_layered, h \in {NoHeader, TokenHeader(FooToken)} }
    \cup { Input("main", rt, h) :
             rt \in {Route("GET", "/todos")}, h \in {NoHeader, TokenHeader(FooToken)} }
    \cup { Input(ro, rt, NoHeader) : ro \in Routers, rt \in Routes }

\* The first request is any of these; the requests running beside it are
\* GET /todos through create_router with an accepted token or with a forged
\* signature.
PeerInputs ==
    { Input("create_router", Route("GET", "/todos"), h) :
        h \in { TokenHeader(FooToken),
                TokenHeader([FooToken EXCEPT !.sig = "forged"]) } }
InputsOf(r) == IF r = 1 THEN Inputs ELSE PeerInputs

(* ------------------------------- state --------------------------------- *)
VARIABLES
    env,        \* the process environment (std::env)
    now,        \* the wall clock
    published,  \* the jwks.json the issuer serves for the configured pool
    req,        \* per request: its input and where its task stands
    vc,         \* a direct call of verify_cognito_jwt_token (VerifierSpec only)
    startEnv,   \* history: the environment as it was when main started
    todos,      \* the rows of table todos, by id (main.rs:327-333)
    seq,        \* the table's AUTOINCREMENT sequence: the last id handed out
    posted,     \* history: what each id was created with, and what came after
    hc          \* the last request served to its end, and its response (HandlerSpec)

store == <<todos, seq, posted, hc>>
vars == <<env, now, published, req, vc, startEnv, store>>

\* A bare response, Err(StatusCode) or a router's own: a status and no body.
Bare(status) == [status |-> status, body |-> ""]
NoResponse == [status |-> 0, body |-> ""]

\* What a request holds before it has read the environment.
NoConfig == [v \in EnvVars |-> Unset]

\* A connection slot no request has arrived on yet.
Idle ==
    [phase |-> "idle", router |-> "main", route |-> Route("GET", "/"),
     header |-> NoHeader,
     gate |-> FALSE,          \* mw_require_auth was entered
     cfg |-> NoConfig,        \* the three variables as middleware.rs:51-53 read them
     keyset |-> FALSE,        \* KeySet::new and the verifier were built
     verify |-> FALSE,        \* keyset.verify was called
     fetches |-> 0,           \* GETs of the pool's jwks.json
     target |-> <<>>,         \* the jwks.json the in-flight response carries
     buf |-> <<>>,            \* the part of it received so far
     keys |-> {},             \* this request's KeySet cache
     read |-> {},             \* the key sets its verifications looked the kid up in
     errs |-> {},             \* what the verification found wrong
     vnow |-> 0,              \* the clock when the claims were validated
     identities |-> {},       \* verified identities attached to the request
     handler |-> FALSE,       \* the route's handler ran
     resp |-> NoResponse]

IdleCall == [pc |-> "idle"]

\* A JSON body: its "status" member and the todo it carries, if it carries one.
NoTodo == [id |-> 0, task |-> "", completed |-> FALSE]
JsonBody(status, todo) == [status |-> status, todo |-> todo]
NoBody == JsonBody("", NoTodo)
\* No request has been served yet.
NoCall ==
    [op |-> "none", gate |-> "none", header |-> NoHeader, id |-> 0, task |-> "",
     completed |-> FALSE, fault |-> "none", absent |-> FALSE,
     status |-> 0, body |-> NoBody, panicked |-> FALSE]
\* main.rs:327-333: the table as CREATE TABLE IF NOT EXISTS leaves a new
\* database.
EmptyStore ==
    /\ todos = <<>>
    /\ seq = 0
    /\ posted = <<>>
    /\ hc = NoCall

(* --------------------- the gate: mw_require_auth ----------------------- *)
\* middleware.rs:38-41: the header as a string, if there is one.
auth_header_or_empty(h) ==
    IF h.kind = "str" THEN <<h.token>> ELSE <<[BaseToken EXCEPT !.wellformed = FALSE]>>
auth_header(h) == IF h.kind = "str" THEN <<h.token>> ELSE <<>>

\* middleware.rs:51-53: std::env::var(..).unwrap() panics on a missing variable.
env_vars_present(e) == \A v \in EnvVars : e[v] # Unset

\* middleware.rs:51-53: the values as they are when the request reads them.
read_config(e) == [v \in EnvVars |-> e[v]]

\* A verifier is the set of string claims it requires, each with the values
\* it accepts.
string_equals(verifier, claim, value) == verifier \cup {<<claim, {value}>>}

\* keyset.new_access_token_verifier(&[&client_id]): the issuer of the key
\* set's pool, one of the client ids, and an access token.
new_access_token_verifier_any_client(iss, client_ids) ==
    {<<"iss", {iss}>>, <<"token_use", {"access"}>>}
new_access_token_verifier(iss, client_ids) ==
    {<<"iss", {iss}>>, <<"client_id", client_ids>>, <<"token_use", {"access"}>>}

\* middleware.rs:61-64: the verifier the gate builds.  No leeway is set on it.
gate_verifier(e) ==
    string_equals(
        new_access_token_verifier(
            issuer_url(e["USER_POOL_REGION"], e["USER_POOL_ID"]), {e["CLIENT_ID"]}),
        "my_claim", "foo")

\* What a verifier finds wrong with a token whose key is at hand, at time t.
verifier_verify(tok, verifier, t) ==
    (IF tok.sig # tok.kid THEN {"signature"} ELSE {})
    \cup (IF tok.exp < t THEN {"exp"} ELSE {})
    \cup (IF tok.nbf > t THEN {"nbf"} ELSE {})
    \cup {c[1] : c \in {d \in verifier : tok[d[1]] \notin d[2]}}

\* KeySet's verification against its cache: the header must decode and name a
\* kid; a kid the cache lacks is a miss.
CacheMiss == [miss |-> TRUE, errs |-> {}]
Verdict(errs) == [miss |-> FALSE, errs |-> errs]
try_verify(tok, keys, verifier, t) ==
    IF ~tok.wellformed THEN Verdict({"malformed"})
    ELSE IF tok.kid = None THEN Verdict({"no_kid"})
    ELSE IF tok.kid \notin keys THEN CacheMiss
    ELSE Verdict(verifier_verify(tok, verifier, t))

\* middleware.rs:66-69: the match on the verification's result.  Ok only
\* prints the claims; Err(_) is a bare 401 whatever the error.
on_verify_err_detailed(errs) == [status |-> 401, body |-> CHOOSE e \in errs : TRUE]
on_verify_err(errs) == Bare(401)
after_verify(rec, errs, keys, t) ==
    IF errs = {}
    THEN [rec EXCEPT !.phase = "authenticated", !.keys = keys, !.vnow = t,
                     !.read = @ \cup {keys}, !.buf = <<>>, !.target = <<>>]
    ELSE [rec EXCEPT !.phase = "rejected", !.keys = keys, !.vnow = t,
                     !.read = @ \cup {keys}, !.buf = <<>>, !.target = <<>>,
                     !.errs = errs, !.resp = on_verify_err(errs)]

\* What the request's KeySet cache holds while a response of `buf` out of
\* `target` has arrived: reqwest hands over a body only when it is complete.
cache_while_receiving_partial(keys, buf, target) == Kids(buf)
cache_while_receiving(keys, buf, target) == IF buf = target THEN Kids(buf) ELSE keys

\* middleware.rs:71 is reached only from the Ok arm.
next_run_reached_after_err(rec) == rec.phase \in {"authenticated", "rejected"}
next_run_reached(rec) == rec.phase = "authenticated"

(* ------------------------------ actions -------------------------------- *)
TypeOK ==
    /\ env \in Envs
    /\ now \in T0..(T0 + MaxTicks)
    /\ published \in {OldKeys, NewKeys}
    /\ \A r \in Reqs : req[r].phase \in
            {"idle", "unauthenticated", "authenticated", "dispatched", "rejected",
             "routed", "responded", "panicked", "cancelled"}

Init ==
    /\ env \in Envs
    /\ now = T0
    /\ published = OldKeys
    /\ req = [r \in Reqs |-> Idle]
    /\ vc = IdleCall
    /\ startEnv = env
    /\ EmptyStore

Tick ==
    /\ now < T0 + MaxTicks
    /\ now' = now + 1
    /\ UNCHANGED <<env, published, req, vc, startEnv, store>>

\* The issuer replaces its published key set.
Rotate ==
    /\ published = OldKeys
    /\ published' = NewKeys
    /\ UNCHANGED <<env, now, req, vc, startEnv, store>>

\* A request arrives and the router routes it: to the gate (route.rs:18), to
\* the handler, or nowhere (404).
Receive(r, in) ==
    /\ req[r].phase = "idle"
    /\ \A q \in Reqs : q < r => req[q].phase # "idle"
    /\ req' = [req EXCEPT ![r] =
            [Idle EXCEPT
                !.router = in.router, !.route = in.route, !.header = in.header,
                !.phase = IF ~Matched(in.router, in.route) THEN "responded"
                          ELSE IF Layered(in.router, in.route) THEN "unauthenticated"
                          ELSE "routed",
                !.resp = IF ~Matched(in.router, in.route) THEN Bare(404)
                         ELSE NoResponse]]
    /\ UNCHANGED <<env, now, published, vc, startEnv, store>>

\* middleware.rs:38-66, up to the first suspension: the header, the
\* environment, the key set and verifier, and keyset.verify's look in its
\* still empty cache, which for a decodable token with a kid is a miss and
\* starts the GET of the pool's jwks.json.
mw_require_auth(r) ==
    /\ req[r].phase = "unauthenticated"
    /\ ~req[r].gate
    /\ LET rec == [req[r] EXCEPT !.gate = TRUE]
           hdr == auth_header(rec.header)
       IN  req' = [req EXCEPT ![r] =
             IF hdr = <<>>
             THEN [rec EXCEPT !.phase = "rejected", !.resp = Bare(401)]
             ELSE IF ~env_vars_present(env)
             THEN [rec EXCEPT !.phase = "panicked"]
             ELSE LET built == [rec EXCEPT !.cfg = read_config(env),
                                           !.keyset = TRUE, !.verify = TRUE]
                      first == try_verify(hdr[1], built.keys, gate_verifier(built.cfg), now)
                  IN  IF first.miss
                      THEN [built EXCEPT !.read = @ \cup {built.keys},
                                         !.fetches = @ + 1,
                                         !.target = published]
                      ELSE after_verify(built, first.errs, built.keys, now)]
    /\ UNCHANGED <<env, now, published, vc, startEnv, store>>

InFlight(r) ==
    /\ req[r].phase = "unauthenticated"
    /\ req[r].gate
    /\ req[r].fetches > 0

\* Part of the jwks.json response arrives.
FetchRecv(r) ==
    /\ InFlight(r)
    /\ LET buf == SubSeq(req[r].target, 1, Len(req[r].buf) + 1)
       IN  /\ buf # req[r].target
           /\ req' = [req EXCEPT ![r].buf = buf,
                           ![r].keys = cache_while_receiving(@, buf, req[r].target)]
    /\ UNCHANGED <<env, now, published, vc, startEnv, store>>

\* The last part arrives: the key set is installed and the token verified
\* against it; a kid still missing is an error.
FetchDone(r) ==
    /\ InFlight(r)
    /\ LET buf == SubSeq(req[r].target, 1, Len(req[r].buf) + 1)
           keys == cache_while_receiving(req[r].keys, buf, req[r].target)
           again == try_verify(req[r].header.token, keys, gate_verifier(req[r].cfg), now)
       IN  /\ buf = req[r].target
           /\ req' = [req EXCEPT ![r] =
                    after_verify(req[r],
                                 IF again.miss THEN {"unknown_kid"} ELSE again.errs,
                                 keys, now)]
    /\ UNCHANGED <<env, now, published, vc, startEnv, store>>

\* The GET fails: keyset.verify returns the error.
FetchFail(r) ==
    /\ InFlight(r)
    /\ req' = [req EXCEPT ![r] =
            [after_verify(req[r], {"key_fetch"}, req[r].keys, now) EXCEPT !.read = req[r].read]]
    /\ UNCHANGED <<env, now, published, vc, startEnv, store>>

\* The connection is dropped while the GET is in flight: the request's
\* future, and the KeySet it owns, are dropped.
Cancel(r) ==
    /\ InFlight(r)
    /\ req' = [req EXCEPT ![r].phase = "cancelled", ![r].buf = <<>>,
                          ![r].target = <<>>, ![r].keys = {}]
    /\ UNCHANGED <<env, now, published, vc, startEnv, store>>

\* middleware.rs:71: next.run(request), the request as it came.
RunNext(r) ==
    /\ next_run_reached(req[r])
    /\ req' = [req EXCEPT ![r].phase = "dispatched", ![r].handler = TRUE]
    /\ UNCHANGED <<env, now, published, vc, startEnv, store>>

\* A route without the layer: the handler runs at once.
RunHandler(r) ==
    /\ req[r].phase = "routed"
    /\ req' = [req EXCEPT ![r].phase = "dispatched", ![r].handler = TRUE]
    /\ UNCHANGED <<env, now, published, vc, startEnv, store>>

Next ==
    \/ Tick
    \/ Rotate
    \/ \E r \in Reqs : \E in \in InputsOf(r) : Receive(r, in)
    \/ \E r \in Reqs : mw_require_auth(r)
    \/ \E r \in Reqs : FetchRecv(r)
    \/ \E r \in Reqs : FetchDone(r)
    \/ \E r \in Reqs : FetchFail(r)
    \/ \E r \in Reqs : Cancel(r)
    \/ \E r \in Reqs : RunNext(r)
    \/ \E r \in Reqs : RunHandler(r)

Spec == Init /\ [][Next]_vars

(* ------------- the verifier: verify_cognito_jwt_token ------------------ *)
\* middleware.rs:119.
Leeway == 5

Ok(v) == [ok |-> TRUE, val |-> v]
Err(kind) == [ok |-> FALSE, err |-> kind]

\* A jwks.json body: whether it deserializes into JWKS (every key needs the
\* fields kid, alg, kty, e, n and use_), and the kids it lists.
JwksBody(parses, kids) == [parses |-> parses, kids |-> kids]

\* middleware.rs:86-98.  A body that does not deserialize is a Json error; a
\* kid the body lacks is reported with ErrorKind::InvalidIssuer.
find_rsa_key(jwks, kid) ==
    IF ~jwks.parses THEN Err("Json")
    ELSE IF kid \notin jwks.kids THEN Err("InvalidIssuer")
    ELSE Ok(kid)

\* middleware.rs:112: jwt_header.kid.unwrap_or_default().
kid_or_default(tok) == IF tok.kid = None THEN "" ELSE tok.kid

\* middleware.rs:118-128: decode::<Claims> under the Validation built there:
\* the signature against the key found, the Claims struct (username), exp and
\* nbf with the leeway, the issuer.  No audience is set.
decode(tok, key, region, pool, t) ==
    IF tok.sig # key THEN Err("InvalidSignature")
    ELSE IF tok.username = None THEN Err("Json")
    ELSE IF tok.exp < t - Leeway THEN Err("ExpiredSignature")
    ELSE IF tok.nbf > t + Leeway THEN Err("ImmatureSignature")
    ELSE IF tok.iss # issuer_url(region, pool) THEN Err("InvalidIssuer")
    ELSE Ok(tok.username)

\* middleware.rs:112-130, what follows the fetch.
verify_with_jwks(tok, jwks, region, pool, t) ==
    LET rsa_key == find_rsa_key(jwks, kid_or_default(tok))
    IN  IF ~rsa_key.ok THEN rsa_key
        ELSE decode(tok, rsa_key.val, region, pool, t)

\* A caller passes a token and the configured region and pool;
\* middleware.rs:106 decodes the header, middleware.rs:109 starts the fetch.
VCall(tok) ==
    /\ vc.pc = "idle"
    /\ vc' = IF ~tok.wellformed
             THEN [pc |-> "done", tok |-> tok, fetches |-> 0,
                   jwks |-> JwksBody(FALSE, {}), result |-> Err("InvalidToken")]
             ELSE [pc |-> "fetching", tok |-> tok, fetches |-> 1,
                   jwks |-> JwksBody(FALSE, {}), result |-> Err("pending")]
    /\ UNCHANGED <<env, now, published, req, startEnv, store>>

\* fetch_jwks returns the body (middleware.rs:80-83), whatever it holds; the
\* rest of the function runs on it.
VFetchOk(parses) ==
    /\ vc.pc = "fetching"
    /\ LET jwks == JwksBody(parses, Kids(published))
       IN  vc' = [vc EXCEPT !.pc = "done", !.jwks = jwks,
                    !.result = verify_with_jwks(vc.tok, jwks,
                                   env["USER_POOL_REGION"], env["USER_POOL_ID"], now)]
    /\ UNCHANGED <<env, now, published, req, startEnv, store>>

\* fetch_jwks returns Err: middleware.rs:109 unwraps it and panics.
VFetchErr ==
    /\ vc.pc = "fetching"
    /\ vc' = [vc EXCEPT !.pc = "panicked"]
    /\ UNCHANGED <<env, now, published, req, startEnv, store>>

\* The caller has its result and may call again.
VReturn ==
    /\ vc.pc \in {"done", "panicked"}
    /\ vc' = IdleCall
    /\ UNCHANGED <<env, now, published, req, startEnv, store>>

VerifierInit ==
    /\ env = Configured
    /\ now = T0
    /\ published = OldKeys
    /\ req = [r \in Reqs |-> Idle]
    /\ vc = IdleCall
    /\ startEnv = env
    /\ EmptyStore

VerifierNext ==
    \/ Tick
    \/ Rotate
    \/ \E tok \in Tokens : VCall(tok)
    \/ \E parses \in BOOLEAN : VFetchOk(parses)
    \/ VFetchErr
    \/ VReturn

VerifierSpec == VerifierInit /\ [][VerifierNext]_vars

(* ------------- a change of the environment while serving -------------- *)
\* The process environment is mutable global state.  What a variable may be
\* changed to: removed, or, for the client id, another client of the same
\* pool.
OtherClient == "client2"
EnvValues(v) == {Unset} \cup (IF v = "CLIENT_ID" THEN {OtherClient} ELSE {})

\* One change after start (std::env::set_var or remove_var, from anywhere in
\* the process).
SetEnv(v, val) ==
    /\ env = startEnv
    /\ val # env[v]
    /\ env' = [env EXCEPT ![v] = val]
    /\ UNCHANGED <<now, published, req, vc, startEnv, store>>

EnvNext ==
    \/ Next
    \/ \E v \in EnvVars : \E val \in EnvValues(v) : SetEnv(v, val)

\* The process starts with all three variables set.
EnvInit == Init /\ env = Configured

EnvSpec == EnvInit /\ [][EnvNext]_vars

(* ------------- the handlers of handler.rs, behind the gate ------------- *)
\* The ids the table hands out in a run.
MaxTodos == 2
Ids == 1..MaxTodos
\* The bodies of POST and PATCH: CreateTodoSchema, UpdateTodoSchema
\* (schema.rs:3-13).
Payloads ==
    { [task |-> "milk", completed |-> FALSE], [task |-> "eggs", completed |-> TRUE] }

\* login, signup and confirm_user also read CLIENT_SECRET.
AccountEnvVars == EnvVars \cup {"CLIENT_SECRET"}
AccountConfigured ==
    [v \in AccountEnvVars |-> IF v \in EnvVars THEN Configured[v] ELSE "secret1"]
HandlerEnvs ==
    {AccountConfigured}
    \cup {[AccountConfigured EXCEPT ![v] = Unset] : v \in {"USER_POOL_ID", "CLIENT_SECRET"}}

\* The requests' headers: the spec's good token, and the same token with the
\* claim my_claim = "foo".
HandlerHeaders == {TokenHeader(BaseToken), TokenHeader(FooToken)}

\* sqlx binds a bool to a BOOLEAN column as the integer 0 or 1 and reads a
\* bool back as "not 0".
encode_bool(b) == IF b THEN 1 ELSE 0
decode_bool(i) == i # 0
Row(task, completed) == [task |-> task, completed |-> encode_bool(completed)]
\* model.rs:3-8, from a row.
Todo(id, row) ==
    [id |-> id, task |-> row.task, completed |-> decode_bool(row.completed)]

\* What can go wrong with a query apart from its row being absent: the pool
\* or the database fails; for the INSERT also the error whose text
\* handler.rs:87-88 looks for.
Unavailable == "pool timed out while waiting for an open connection"
Duplicate == "duplicate key value violates unique constraint"
Faults == {"none", Unavailable}
InsertFaults == Faults \cup {Duplicate}
\* handler.rs:87-88: e.to_string().contains(..).
is_duplicate(fault) == fault = Duplicate

\* fetch_one of a SELECT or UPDATE .. RETURNING by id: the row, or
\* RowNotFound, or the fault.
fetch_one(rows, id, fault) ==
    IF fault # "none" THEN Err(fault)
    ELSE IF id \notin DOMAIN rows THEN Err("RowNotFound")
    ELSE Ok(Todo(id, rows[id]))

Reply(status, body) == [status |-> status, body |-> body, panicked |-> FALSE]
\* An unwrap() of an Err or None: the request's task ends without a response.
Panic == [status |-> 0, body |-> NoBody, panicked |-> TRUE]

\* middleware.rs:34-72 for a request whose jwks.json GET succeeds: the
\* request is rejected, panics on a missing variable, or is forwarded.
gate_outcome(h, e, jwks, t) ==
    LET hdr == auth_header(h)
    IN  IF hdr = <<>> THEN "rejected"
        ELSE IF ~env_vars_present(e) THEN "panicked"
        ELSE LET verifier == gate_verifier(read_config(e))
                 first == try_verify(hdr[1], {}, verifier, t)
                 again == try_verify(hdr[1], Kids(jwks), verifier, t)
                 errs == IF ~first.miss THEN first.errs
                         ELSE IF again.miss THEN {"unknown_kid"}
                         ELSE again.errs
             IN  IF errs = {} THEN "forwarded" ELSE "rejected"
\* What the client gets when the gate does not forward.
Stopped(g) == IF g = "panicked" THEN Panic ELSE Reply(401, NoBody)

\* The request just served and its response.
Served(op, g, h, id, task, completed, fault, reply) ==
    [op |-> op, gate |-> g, header |-> h, id |-> id, task |-> task,
     completed |-> completed, fault |-> fault, absent |-> id \notin DOMAIN todos,
     status |-> reply.status, body |-> reply.body, panicked |-> reply.panicked]

\* The history of an id: a PATCH or DELETE request addressed it; a DELETE
\* removed it.
Touch(id, removed) ==
    IF id \notin DOMAIN posted THEN posted
    ELSE [posted EXCEPT ![id].intact = FALSE, ![id].deleted = @ \/ removed]

\* handler.rs:36-60, GET /todos.  (The list in the body is left out.)
get_todos(h, fault) ==
    /\ LET g == gate_outcome(h, env, published, now)
           reply == IF g # "forwarded" THEN Stopped(g)
                    ELSE IF fault # "none" THEN Reply(500, JsonBody("fail", NoTodo))
                    ELSE Reply(200, JsonBody("success", NoTodo))
       IN  hc' = Served("get_todos", g, h, 0, "", FALSE, fault, reply)
    /\ UNCHANGED <<env, now, published, req, vc, startEnv, todos, seq, posted>>

\* handler.rs:63-103, POST /todos.
create_todo(h, task, completed, fault) ==
    /\ seq < MaxTodos
    /\ LET g == gate_outcome(h, env, published, now)
           id == seq + 1
           row == Row(task, completed)
           stored == g = "forwarded" /\ fault = "none"
           reply == IF g # "forwarded" THEN Stopped(g)
                    ELSE IF fault = "none"
                    THEN Reply(201, JsonBody("success", Todo(id, row)))
                    ELSE IF is_duplicate(fault)
                    THEN Reply(409, JsonBody("fail", NoTodo))
                    ELSE Reply(500, JsonBody("error", NoTodo))
       IN  /\ todos' = IF stored THEN todos @@ (id :> row) ELSE todos
           /\ seq' = IF stored THEN id ELSE seq
           /\ posted' = IF stored
                        THEN posted @@ (id :> [task |-> task, completed |-> completed,
                                               intact |-> TRUE, deleted |-> FALSE])
                        ELSE posted
           /\ hc' = Served("create_todo", g, h, 0, task, completed, fault, reply)
    /\ UNCHANGED <<env, now, published, req, vc, startEnv>>

\* handler.rs:106-135, GET /todos/:id.  Whatever the error, the answer is 404.
get_todo(h, id, fault) ==
    /\ LET g == gate_outcome(h, env, published, now)
           todo_result == fetch_one(todos, id, fault)
           reply == IF g # "forwarded" THEN Stopped(g)
                    ELSE IF todo_result.ok
                    THEN Reply(200, JsonBody("success", todo_result.val))
                    ELSE Reply(404, JsonBody("fail", NoTodo))
       IN  hc' = Served("get_todo", g, h, id, "", FALSE, fault, reply)
    /\ UNCHANGED <<env, now, published, req, vc, startEnv, todos, seq, posted>>

\* handler.rs:138-170, PATCH /todos/:id.  Whatever the error, RowNotFound
\* included, the answer is 500.
update_todo(h, id, task, completed, fault) ==
    /\ LET g == gate_outcome(h, env, published, now)
           row == Row(task, completed)
           updated == IF id \in DOMAIN todos THEN [todos EXCEPT ![id] = row] ELSE todos
           todo_result == fetch_one(updated, id, fault)
           reply == IF g # "forwarded" THEN Stopped(g)
                    ELSE IF todo_result.ok
                    THEN Reply(200, JsonBody("success", todo_result.val))
                    ELSE Reply(500, JsonBody("error", NoTodo))
       IN  /\ todos' = IF g = "forwarded" /\ fault = "none" THEN updated ELSE todos
           /\ hc' = Served("update_todo", g, h, id, task, completed, fault, reply)
    /\ posted' = Touch(id, FALSE)
    /\ UNCHANGED <<env, now, published, req, vc, startEnv, seq>>

\* handler.rs:173-194, DELETE /todos/:id.  The query's error is unwrapped.
delete_todo(h, id, fault) ==
    /\ LET g == gate_outcome(h, env, published, now)
           rows_affected == IF id \in DOMAIN todos THEN 1 ELSE 0
           removed == g = "forwarded" /\ fault = "none" /\ rows_affected # 0
           reply == IF g # "forwarded" THEN Stopped(g)
                    ELSE IF fault # "none" THEN Panic
                    ELSE IF rows_affected = 0
                    THEN Reply(404, JsonBody("error", NoTodo))
                    ELSE Reply(204, NoBody)
       IN  /\ todos' = IF removed THEN [i \in DOMAIN todos \ {id} |-> todos[i]]
                       ELSE todos
           /\ posted' = Touch(id, removed)
           /\ hc' = Served("delete_todo", g, h, id, "", FALSE, fault, reply)
    /\ UNCHANGED <<env, now, published, req, vc, startEnv, seq>>

\* What the identity provider answers: a result with tokens, a reply without
\* an authentication result (a challenge), or an error.
LoginOutcomes == {"none", "challenge", "error"}
AccountOutcomes == {"none", "error"}
\* The std::env::var(..).unwrap() calls of an account handler.
account_env_present(e, names) == \A v \in names : e[v] # Unset

\* handler.rs:196-238, POST /login.
login(outcome) ==
    /\ LET sent == account_env_present(env, {"CLIENT_ID", "CLIENT_SECRET", "USER_POOL_ID"})
           reply ==
             IF ~sent THEN Panic
             ELSE IF outcome = "challenge" THEN Panic
             ELSE IF outcome = "error" THEN Reply(200, JsonBody("error", NoTodo))
             ELSE Reply(200, JsonBody("success", NoTodo))
       IN  hc' = Served("login", "none", NoHeader, 0, "", FALSE,
                       IF sent THEN outcome ELSE "none", reply)
    /\ UNCHANGED <<env, now, published, req, vc, startEnv, todos, seq, posted>>

\* handler.rs:240-290, POST /signup.
signup(outcome) ==
    /\ LET sent == account_env_present(env, {"CLIENT_ID", "CLIENT_SECRET", "USER_POOL_ID"})
           reply ==
             IF ~sent THEN Panic
             ELSE IF outcome = "error" THEN Reply(400, JsonBody("error", NoTodo))
             ELSE Reply(201, JsonBody("success", NoTodo))
       IN  hc' = Served("signup", "none", NoHeader, 0, "", FALSE,
                       IF sent THEN outcome ELSE "none", reply)
    /\ UNCHANGED <<env, now, published, req, vc, startEnv, todos, seq, posted>>

\* handler.rs:292-326, POST /confirm.
confirm_user(outcome) ==
    /\ LET sent == account_env_present(env, {"CLIENT_ID", "CLIENT_SECRET"})
           reply ==
             IF ~sent THEN Panic
             ELSE IF outcome = "error" THEN Reply(200, JsonBody("error", NoTodo))
             ELSE Reply(200, JsonBody("success", NoTodo))
       IN  hc' = Served("confirm_user", "none", NoHeader, 0, "", FALSE,
                       IF sent THEN outcome ELSE "none", reply)
    /\ UNCHANGED <<env, now, published, req, vc, startEnv, todos, seq, posted>>

HandlerInit ==
    /\ env \in HandlerEnvs
    /\ now = T0
    /\ published = OldKeys
    /\ req = [r \in Reqs |-> Idle]
    /\ vc = IdleCall
    /\ startEnv = env
    /\ EmptyStore

HandlerNext ==
    \/ \E h \in HandlerHeaders : \E fault \in Faults : get_todos(h, fault)
    \/ \E h \in HandlerHeaders : \E body \in Payloads : \E fault \in InsertFaults :
         create_todo(h, body.task, body.completed, fault)
    \/ \E h \in HandlerHeaders : \E id \in Ids : \E fault \in Faults :
         get_todo(h, id, fault)
    \/ \E h \in HandlerHeaders : \E id \in Ids : \E body \in Payloads :
         \E fault \in Faults : update_todo(h, id, body.task, body.completed, fault)
    \/ \E h \in HandlerHeaders : \E id \in Ids : \E fault \in Faults :
         delete_todo(h, id, fault)
    \/ \E outcome \in LoginOutcomes : login(outcome)
    \/ \E outcome \in AccountOutcomes : signup(outcome)
    \/ \E outcome \in AccountOutcomes : confirm_user(outcome)

HandlerSpec == HandlerInit /\ [][HandlerNext]_vars

(* ------------------------------ claims --------------------------------- *)
Tok(r) == req[r].header.token
HasToken(r) == req[r].phase # "idle" /\ req[r].header.kind = "str"
\* The gate has finished with the request's token.
Settled(r) == req[r].gate /\ req[r].phase \in {"authenticated", "dispatched", "rejected"}
VerifyFailed(r) == req[r].gate /\ req[r].verify /\ req[r].phase = "rejected"
CompleteKeySets == {{}} \cup KeySets

\* A token C1 calls acceptable, against the key set `keys` at time t under the
\* configuration e (with a past nbf and token_use "access", which C1 leaves open).
Acceptable(tok, keys, e, t) ==
    /\ tok.wellformed
    /\ tok.kid \in keys
    /\ tok.sig = tok.kid
    /\ tok.exp > t
    /\ tok.nbf <= t
    /\ tok.iss = issuer_url(e["USER_POOL_REGION"], e["USER_POOL_ID"])
    /\ tok.client_id = e["CLIENT_ID"]
    /\ tok.token_use = "access"

\* C1: a request on a protected route whose token is correctly signed by a key
\* of the fetched key set, unexpired, and issued by the configured pool for
\* the configured client is not rejected by the gate, whatever other claims
\* the token carries or lacks.
C1_ValidTokenAccepted ==
    \A r \in Reqs :
        (HasToken(r) /\ Settled(r)
         /\ Acceptable(Tok(r), req[r].keys, env, req[r].vnow))
        => req[r].phase # "rejected"

\* C2: a request without an Authorization header that enters the gate gets a
\* bare 401; no key set or verifier is built for it, no key fetch is made, no
\* verification is called, and the handler does not run.
C2_MissingHeader401 ==
    \A r \in Reqs :
        (req[r].gate /\ req[r].header.kind = "absent")
        => /\ req[r].phase = "rejected"
           /\ req[r].resp = Bare(401)
           /\ ~req[r].keyset /\ ~req[r].verify /\ req[r].fetches = 0
           /\ ~req[r].handler
C2_Witness ==
    \E r \in Reqs :
        req[r].gate /\ req[r].header.kind = "absent" /\ req[r].phase = "rejected"

\* C3: any two requests whose verification failed, for whatever reasons, got
\* the same response: a 401 with no body.
C3_UniformRejection ==
    \A r1, r2 \in Reqs :
        (VerifyFailed(r1) /\ VerifyFailed(r2))
        => req[r1].resp = req[r2].resp /\ req[r1].resp = Bare(401)
C3_Witness ==
    \E r1, r2 \in Reqs :
        /\ VerifyFailed(r1) /\ VerifyFailed(r2)
        /\ req[r1].errs = {"key_fetch"}
        /\ req[r2].errs = {"signature"}

\* C4: a request the gate forwarded carries exactly one verified identity, the
\* username of its token, and a request it rejected carries none.
C4_OneIdentityWhenForwarded ==
    \A r \in Reqs :
        /\ (req[r].gate /\ req[r].phase = "dispatched")
              => req[r].identities = {Tok(r).username}
        /\ (req[r].gate /\ req[r].phase = "rejected") => req[r].identities = {}

\* One step of the lifecycle of a request on a layered route.
OnGate(r) == req[r].phase # "idle" /\ Layered(req[r].router, req[r].route)
LifecycleStep(r) ==
    LET a == req[r].phase
        b == req'[r].phase
    IN  OnGate(r) =>
          /\ a = "unauthenticated"
                => b \in {"unauthenticated", "rejected", "authenticated",
                          "panicked", "cancelled"}
          /\ a = "authenticated" => b \in {"authenticated", "dispatched"}
          /\ a \in {"rejected", "dispatched"} => b = a /\ req'[r] = req[r]
          /\ b = "unauthenticated" => a = "unauthenticated"
          /\ b = "authenticated" /\ a # b => req'[r].verify /\ req'[r].errs = {}
          /\ (req'[r].handler /\ ~req[r].handler)
                => a = "authenticated" /\ b = "dispatched" /\ req[r].errs = {}

\* C5: a request in the gate goes from Unauthenticated to Rejected, or to
\* Authenticated and from there to Dispatched; the handler starts only in the
\* step from Authenticated; Rejected and Dispatched are never left; nothing
\* returns to Unauthenticated.
C5_Lifecycle == [][\A r \in Reqs : LifecycleStep(r)]_vars
C5_Witness ==
    \E r1, r2 \in Reqs :
        /\ req[r1].gate /\ req[r1].phase = "dispatched"
        /\ req[r2].gate /\ req[r2].phase = "rejected" /\ req[r2].verify

\* C6: a handler of a todo route ran only for a request that went through the
\* gate and was verified.
C6_TodoRoutesGated ==
    \A r \in Reqs :
        (req[r].handler /\ req[r].route \in TodoRoutes)
        => req[r].gate /\ req[r].verify /\ req[r].errs = {}

\* C7: once the gate has validated the claims of a token with a valid
\* signature, the token is rejected if its exp lies more than Leeway seconds
\* before the clock, and expiry is no ground of rejection otherwise.
C7_ExpiryLeeway ==
    \A r \in Reqs :
        (HasToken(r) /\ Settled(r) /\ Tok(r).wellformed
         /\ Tok(r).kid \in req[r].keys /\ Tok(r).sig = Tok(r).kid)
        => /\ Tok(r).exp < req[r].vnow - Leeway => req[r].phase = "rejected"
           /\ Tok(r).exp >= req[r].vnow - Leeway => "exp" \notin req[r].errs

\* C8: the gate lets no token through whose issuer is not the URL of the
\* configured region and pool or whose client_id is not the configured
\* CLIENT_ID: the request is rejected and its handler does not run.
WrongIssuerOrClient(tok, e) ==
    \/ tok.iss # issuer_url(e["USER_POOL_REGION"], e["USER_POOL_ID"])
    \/ tok.client_id # e["CLIENT_ID"]
C8_IssuerAndClientEnforced ==
    \A r \in Reqs :
        (req[r].gate /\ HasToken(r) /\ WrongIssuerOrClient(Tok(r), env))
        => /\ req[r].phase \notin {"authenticated", "dispatched"}
           /\ ~req[r].handler
           /\ Settled(r) => req[r].resp = Bare(401)
C8_Witness ==
    \E r \in Reqs :
        /\ VerifyFailed(r) /\ req[r].errs = {"client_id"}
        /\ req[r].resp = Bare(401)

\* The spec's error taxonomy (section 7) for the verifier's error kinds.
AuthErrorOf(kind) ==
    CASE kind = "InvalidToken" -> "MalformedToken"
      [] kind = "Json" -> "MalformedToken"
      [] kind = "InvalidSignature" -> "BadSignature"
      [] kind \in {"ExpiredSignature", "ImmatureSignature", "InvalidIssuer"}
            -> "ClaimRejected"
      [] OTHER -> kind

\* C9: a call of the verifier with a decodable token whose kid (or lack of
\* one) matches no key of the fetched key set ends in the UnknownKey error,
\* after exactly one fetch.
C9_UnknownKeyError ==
    (vc.pc = "done" /\ vc.tok.wellformed /\ vc.jwks.parses
     /\ kid_or_default(vc.tok) \notin vc.jwks.kids)
    => /\ ~vc.result.ok
       /\ AuthErrorOf(vc.result.err) = "UnknownKey"
       /\ vc.fetches = 1

\* C10: whatever the interleaving of requests, rotations and cancellations, a
\* request's KeySet cache holds, and every verification has looked its kid up
\* in, nothing (before the fetch) or one complete published key set; a
\* cancelled request leaves no keys behind.
C10_NoPartialKeySet ==
    \A r \in Reqs :
        /\ req[r].keys \in CompleteKeySets
        /\ req[r].read \subseteq CompleteKeySets
        /\ req[r].phase = "cancelled" => req[r].keys = {} /\ req[r].buf = <<>>
C10_Witness ==
    \E r1, r2 \in Reqs :
        /\ InFlight(r1) /\ req[r1].target = NewKeys /\ Len(req[r1].buf) = 1
        /\ req[r2].phase = "authenticated" /\ req[r2].keys = Kids(OldKeys)

\* A header with a token the spec calls valid (C1): signed by a published
\* key, unexpired, of the configured pool and client.
ValidToken(h) == h.kind = "str" /\ Acceptable(h.token, Kids(published), env, now)
\* What C11 expects of the served request c, given the history of the ids
\* before it.
CreateReadDelete(c) ==
    /\ c.op = "create_todo"
          => /\ c.status = 201
             /\ c.body.todo.id \notin DOMAIN posted \cup {0}
             /\ c.body.todo.task = c.task
             /\ c.body.todo.completed = c.completed
    /\ (c.op = "get_todo" /\ c.id \in DOMAIN posted /\ posted[c.id].intact)
          => /\ c.status = 200
             /\ c.body.todo = [id |-> c.id, task |-> posted[c.id].task,
                               completed |-> posted[c.id].completed]
    /\ (c.op = "delete_todo" /\ c.id \in DOMAIN posted /\ ~posted[c.id].deleted)
          => c.status = 204
    /\ (c.op = "get_todo" /\ c.id \in DOMAIN posted /\ posted[c.id].deleted)
          => c.status = 404

\* C11: while the storage works, a request with a valid token gets: for POST
\* /todos a 201 with an id handed out for the first time and the posted task
\* and completed; for GET /todos/:id of a posted id no PATCH or DELETE has
\* addressed since, a 200 with the posted values; for DELETE /todos/:id of a
\* posted id not yet deleted, a 204; for GET /todos/:id of a deleted id, a 404.
C11_CreateReadDelete ==
    [][(hc' # hc /\ ValidToken(hc'.header) /\ hc'.fault = "none")
            => CreateReadDelete(hc')]_vars
\* The same of the requests the gate forwarded, whatever the spec calls their
\* token.
ForwardedCreateReadDelete ==
    [][(hc' # hc /\ hc'.gate = "forwarded" /\ hc'.fault = "none")
            => CreateReadDelete(hc')]_vars
ForwardedChainServed ==
    /\ hc.op = "get_todo" /\ hc.gate = "forwarded" /\ hc.status = 404
    /\ hc.id \in DOMAIN posted /\ posted[hc.id].deleted

\* A handler ran for the request and its operation failed: the storage or the
\* identity provider returned an error, or the addressed id is absent.
IdOps == {"get_todo", "update_todo", "delete_todo"}
AccountOps == {"login", "signup", "confirm_user"}
AbsentId(c) == c.op \in IdOps /\ c.absent
Failed(c) ==
    /\ c.op # "none"
    /\ c.gate \in {"forwarded", "none"}
    /\ \/ c.fault \in {Unavailable, Duplicate, "error"}
       \/ AbsentId(c)

\* C12: the status of a failed operation follows the kind of its error: 404
\* if and only if the addressed todo id is absent (when the storage answers),
\* 409 for the duplicate conflict, a status of 500..599 for every other
\* storage failure and every identity-provider failure; never 200..299.
C12_StatusFollowsErrorKind ==
    Failed(hc) =>
        /\ hc.status = 404 => AbsentId(hc)
        /\ (AbsentId(hc) /\ hc.fault = "none") => hc.status = 404
        /\ is_duplicate(hc.fault) => hc.status = 409
        /\ (hc.fault \in {Unavailable, "error"}) => hc.status \in 500..599
        /\ hc.status \notin 200..299

\* The request's task is over.
Ended(r) == req[r].phase \in {"rejected", "responded", "panicked"}
\* C13: a request whose task is over has its response, in the gate whatever
\* failed (a missing variable, the key fetch), and no key fetch was repeated
\* for it.
C13_EveryRequestAnswered ==
    \A r \in Reqs :
        /\ Ended(r) => req[r].resp.status # 0
        /\ req[r].fetches <= 1

\* A verification of q succeeded on a key set it fetched, and that set is
\* still the published one.
VerifiedOnFetchedSet(q) ==
    /\ req[q].phase \in {"authenticated", "dispatched"}
    /\ req[q].fetches > 0
    /\ req[q].keys = Kids(published)
\* C14: once a verification has succeeded on a fetched key set, a later
\* request entering the gate with a token whose kid is in that set starts no
\* key-set fetch.
C14_KeySetReused ==
    [][\A q, r \in Reqs :
          (/\ q # r
           /\ VerifiedOnFetchedSet(q)
           /\ req[r].phase = "unauthenticated" /\ ~req[r].gate
           /\ req[r].header.kind = "str"
           /\ Tok(r).wellformed /\ Tok(r).kid \in req[q].keys)
          => req'[r].fetches = req[r].fetches]_vars

\* C15: in a process started with the three variables set, every request
\* with a header gets a verifier, built from the region, pool and client id
\* the environment held at start, whatever it holds when the request is
\* served.
C15_ConfigReadOnce ==
    \A r \in Reqs :
        (req[r].gate /\ req[r].header.kind = "str")
        => req[r].keyset /\ req[r].cfg = read_config(startEnv)

====
